---- MODULE Spec2Model ----
(***************************************************************************)
(* Wildlife audio monitor: the monitoring loop of main.js, the recorder    *)
(* and the audio preprocessing of AudioProcessor, and the recognition      *)
(* statistics of ModelLoader.                                              *)
(*                                                                         *)
(* The browser runs the page on one thread.  Every action below is one     *)
(* task of the event loop together with the microtasks it triggers: a      *)
(* click handler, a timer callback, a recorder event, or the continuation  *)
(* of an await whose promise is settled by the platform (getUserMedia,     *)
(* FileReader, decodeAudioData, AudioContext.close, Tensor.data).          *)
(***************************************************************************)
EXTENDS Integers, Sequences, FiniteSets, TLC

(* ----------------------------- bounds --------------------------------- *)
\* Bounds of Spec, the monitoring loop on its own.
MaxSessions == 2        \* successful startMonitoring continuations
MaxPendingStarts == 2   \* startMonitoring calls waiting for getUserMedia
MaxStreams == 2         \* microphone streams alive at the same time
MaxRecordings == 2      \* recordings started by interval ticks
\* Bounds of SpecStats, monitoring together with uploads and resets.
StatsSessions == 1      \* sessions, pending starts and live streams
StatsRuns == 2          \* recordings and upload analyses started, together
\* Bounds of SpecRecorder, the recorder with what it records.
RecorderSessions == 1   \* sessions, pending starts and live streams
RecorderRuns == 2       \* recordings started by interval ticks
\* Bounds of SpecUpload, the upload analyses with the storage they use.
MaxUploads == 7         \* upload analyses started
MaxInFlight == 2        \* upload analyses in flight together
\* Bounds of SpecHistory, the calls of updateRecognitionHistory.
MaxResults == 102       \* results before a reset
MaxAfterReset == 2      \* results after a reset
MaxVaried == 2          \* leading results whose class varies
\* Bounds of SpecNormalize, the calls of normalizeAudioLength.
MaxAudioLen == 4        \* samples of the input
MaxSampleRate == 3      \* sampleRate, in samples per second
MaxHalfSeconds == 3     \* targetDuration, in half seconds
\* Bounds of SpecResample, the calls of resampleAudio.
MaxFrames == 3          \* audioBuffer.length
MaxChannels == 2        \* audioBuffer.numberOfChannels
\* Bounds of SpecFeatures, the calls of extractFeatures.
MaxHops == 5            \* audioData.length, in hops of hop_length samples
MaxBands == 2           \* inputShape[0]
MaxTimeSteps == 3       \* inputShape[1]
\* Bounds of SpecWav, the calls of audioBufferToWav.
MaxWavFrames == 2       \* audioBuffer.length
MaxWavChannels == 3     \* audioBuffer.numberOfChannels

Null == "null"

\* A subset of ModelLoader.classNames; every prediction names one of them.
classNames == {"Bear", "Cattle"}

\* Files the file input can hold.
Files == {"a.wav"}

Max(a, b) == IF a > b THEN a ELSE b

RecorderIds == 1..Max(MaxRecordings, Max(StatsRuns, RecorderRuns))

VARIABLES
    \* main.js closure state
    isMonitoring,        \* let isMonitoring
    recognitionCount,    \* let recognitionCount
    monitoringInterval,  \* let monitoringInterval: Null or "timer"
    selectedFile,        \* let selectedFile: Null or a file
    uploadBtnDisabled,   \* uploadAudioBtn.disabled
    \* platform state created by main.js
    liveIntervals,       \* number of setInterval timers not cleared
    pendingStarts,       \* startMonitoring calls awaiting getUserMedia:
                         \* how many were made before (FALSE) and after
                         \* (TRUE) a stopMonitoring had completed
    session,             \* number of startMonitoring calls that succeeded
    \* the shared AudioProcessor and the platform objects it owns
    ap,
    \* processRecordedAudio invocations, one per recorder
    runs,
    \* uploadAndAnalyzeAudio invocations: how many are in each state
    uploads,
    \* ModelLoader
    isModelLoaded,
    ml,
    \* one call of a preprocessing function of AudioProcessor: its
    \* arguments, and its result once it has returned
    call,
    \* what the shared AudioProcessor records: audioChunks, the callback
    \* it holds, what the callbacks were given
    rec,
    \* local storage and the object URLs of the page
    storage

vars == <<isMonitoring, recognitionCount, monitoringInterval, selectedFile,
          uploadBtnDisabled, liveIntervals, pendingStarts, session, ap, runs,
          uploads, isModelLoaded, ml, call, rec, storage>>

mainVars == <<isMonitoring, recognitionCount, monitoringInterval,
              liveIntervals, pendingStarts, session>>
uploadVars == <<selectedFile, uploadBtnDisabled, uploads, call, rec, storage>>

(* ------------------------- AudioProcessor ----------------------------- *)
\* State after the constructor and initialize(): an open AudioContext, no
\* stream, no recorder.  mediaRecorder is 0 for null, else the id of the
\* most recently created MediaRecorder.  recorders maps each MediaRecorder
\* to "none" (not created), "recording", "stopping" (stop() called, its
\* dataavailable and stop events are queued) or "inactive" (events fired).
\* recSession remembers the monitoring session that created the recorder.
\* liveStreams counts the MediaStreams whose tracks were not stopped.
AudioProcessorInit ==
    [audioContext |-> TRUE,
     mediaStream |-> FALSE,
     mediaRecorder |-> 0,
     isRecording |-> FALSE,
     recordingInterval |-> FALSE,
     recordingCallback |-> FALSE,
     recorders |-> [r \in RecorderIds |-> "none"],
     recSession |-> [r \in RecorderIds |-> 0],
     liveStreams |-> 0]

\* Variant of stopRecording: the timer handle is kept.
stopRecordingKeepTimer(a) ==
    IF a.mediaRecorder # 0 /\ a.isRecording
    THEN [a EXCEPT !.recorders[a.mediaRecorder] = "stopping",
                   !.isRecording = FALSE]
    ELSE a

\* stopRecording(): clear the stop timer; stop the recorder if recording.
stopRecording(a) ==
    LET a1 == [a EXCEPT !.recordingInterval = FALSE]
    IN  IF a1.mediaRecorder # 0 /\ a1.isRecording
        THEN [a1 EXCEPT !.recorders[a1.mediaRecorder] = "stopping",
                        !.isRecording = FALSE]
        ELSE a1

\* initialize(): a new AudioContext, then stopRecording().
initialize(a) == stopRecording([a EXCEPT !.audioContext = TRUE])

\* releaseResources(): stopRecording, stop the tracks of the held stream,
\* drop the stream, close and drop the AudioContext.
releaseResources(a) ==
    LET a1 == stopRecording(a)
        a2 == IF a1.mediaStream
              THEN [a1 EXCEPT !.mediaStream = FALSE,
                              !.liveStreams = a1.liveStreams - 1]
              ELSE a1
    IN  [a2 EXCEPT !.audioContext = FALSE]

\* requestMicrophoneAccess() once getUserMedia has settled.  A granted
\* stream is stored in mediaStream first (a stream held before stays alive
\* but is no longer referenced); createMediaStreamSource then throws when
\* audioContext is null, which the catch turns into false.
requestMicrophoneAccess(a, granted) ==
    IF granted
    THEN [a EXCEPT !.mediaStream = TRUE, !.liveStreams = a.liveStreams + 1]
    ELSE a

micAccessResult(a, granted) == granted /\ a.audioContext

\* The guard of startRecording.
canStartRecording(a) == ~a.isRecording /\ a.mediaStream

\* startRecording(callback) in session s: no-op returning false unless the
\* guard holds; else a new MediaRecorder is created and started and the
\* stop timer is set.
startRecording(a, s) ==
    IF ~canStartRecording(a)
    THEN a
    ELSE LET id == a.mediaRecorder + 1
         IN  [a EXCEPT !.recordingCallback = TRUE,
                       !.mediaRecorder = id,
                       !.recorders[id] = "recording",
                       !.recSession[id] = s,
                       !.isRecording = TRUE,
                       !.recordingInterval = TRUE]

\* What the AudioProcessor records besides the fields of ap.  audioChunks
\* holds, for every chunk, the MediaRecorder that produced it; callbackId
\* tells which callback recordingCallback holds, the one passed to the
\* startRecording call that created that MediaRecorder (0 for null);
\* invoked lists for every callback the blobs it was called with, each
\* with the MediaRecorder whose onstop built it; returned is what the last
\* startRecording call returned.
RecordsInit ==
    [audioChunks |-> <<>>,
     callbackId |-> 0,
     invoked |-> [c \in RecorderIds |-> <<>>],
     returned |-> "none"]

\* Variant of startRecordingRecords: the callback and the chunks are reset
\* before the guard is looked at.
startRecordingRecordsEarly(a, r) ==
    [r EXCEPT !.callbackId = a.mediaRecorder + 1,
              !.audioChunks = <<>>,
              !.returned = IF canStartRecording(a) THEN "true" ELSE "false"]

\* startRecording(callback), what it records: nothing but the returned
\* false when the guard fails; else the callback is stored and audioChunks
\* is emptied.
startRecordingRecords(a, r) ==
    IF ~canStartRecording(a)
    THEN [r EXCEPT !.returned = "false"]
    ELSE [r EXCEPT !.callbackId = a.mediaRecorder + 1,
                   !.audioChunks = <<>>,
                   !.returned = "true"]

\* The dataavailable and stop events of MediaRecorder id, fired in one
\* task: ondataavailable pushes the data when it is not empty, onstop
\* makes a Blob of audioChunks and calls the callback held at that time.
recorderEvents(r, id, hasData) ==
    LET chunks == IF hasData THEN Append(r.audioChunks, id)
                  ELSE r.audioChunks
        audioBlob == [recorder |-> id, chunks |-> chunks]
    IN  [r EXCEPT !.audioChunks = chunks,
                  !.invoked = IF r.callbackId = 0 THEN @
                              ELSE [@ EXCEPT ![r.callbackId] =
                                        Append(@, audioBlob)]]

(* --------------------------- ModelLoader ------------------------------ *)
HistoryLimit == 100

\* Variant of updateRecognitionHistory: the session count is written from a
\* stale value (a lost increment).
updateRecognitionHistoryStale(m, class) ==
    [m EXCEPT !.recognitionHistory = Append(m.recognitionHistory, class),
              !.speciesCount[class] = 1,
              !.historicalSpeciesCount[class] =
                  m.historicalSpeciesCount[class] + 1,
              !.updates = m.updates + 1]

\* Variant of limitHistory: the newest result is dropped.
limitHistoryNewest(h) ==
    IF Len(h) > HistoryLimit THEN SubSeq(h, 1, HistoryLimit) ELSE h

\* recognitionHistory.shift() when the length is above the limit.
limitHistory(h) == IF Len(h) > HistoryLimit THEN Tail(h) ELSE h

\* updateRecognitionHistory(result): push, drop the oldest above the limit,
\* count the class in both tables.  updates and historicalBase are history
\* fields: the calls since the last resetStatistics and the sum of
\* historicalSpeciesCount at that time.
updateRecognitionHistory(m, class) ==
    LET h == Append(m.recognitionHistory, class)
    IN  [m EXCEPT !.recognitionHistory = limitHistory(h),
                  !.speciesCount[class] = m.speciesCount[class] + 1,
                  !.historicalSpeciesCount[class] =
                      m.historicalSpeciesCount[class] + 1,
                  !.updates = m.updates + 1]

RECURSIVE SumOver(_, _)
SumOver(f, S) ==
    IF S = {} THEN 0
    ELSE LET x == CHOOSE y \in S : TRUE
         IN  f[x] + SumOver(f, S \ {x})

\* resetStatistics(): empty history, zero the session counts.
resetStatistics(m) ==
    [m EXCEPT !.recognitionHistory = <<>>,
              !.speciesCount = [c \in classNames |-> 0],
              !.updates = 0,
              !.historicalBase = SumOver(m.historicalSpeciesCount, classNames)]

\* The constructor; historicalSpeciesCount comes from local storage.
ModelLoaderInit(hist) ==
    [recognitionHistory |-> <<>>,
     speciesCount |-> [c \in classNames |-> 0],
     historicalSpeciesCount |-> hist,
     updates |-> 0,
     historicalBase |-> SumOver(hist, classNames)]

\* No preprocessing call is being looked at.
NoCall == [fn |-> "none"]

(* ---------------------- normalizeAudioLength -------------------------- *)
\* Sample values; 0 is also what a fresh Float32Array holds.
Samples == {0, 1}

Min(a, b) == IF a < b THEN a ELSE b

\* A Float32Array is a sequence; index i of the array is element i + 1.
\* TypedArray.subarray(begin, end), both clamped to the length.
subarray(a, begin, end) ==
    LET b == Min(begin, Len(a))
        e == Min(end, Len(a))
    IN  IF e <= b THEN <<>> ELSE SubSeq(a, b + 1, e)

\* TypedArray.set(src, offset) on result.
set(result, src, offset) ==
    [i \in 1..Len(result) |->
        IF i > offset /\ i <= offset + Len(src) THEN src[i - offset]
        ELSE result[i]]

\* targetLength = Math.floor(sampleRate * targetDuration), the duration
\* given in half seconds.
targetLengthOf(sampleRate, halves) == (sampleRate * halves) \div 2

\* Variant of repeatCount: rounds down.
repeatCountFloor(targetLength, length) == targetLength \div length

\* repeats = Math.ceil(targetLength / audio.length).
repeatCount(targetLength, length) == (targetLength + length - 1) \div length

\* The body of the padding loop for repetition i.
padIteration(result, audio, i, targetLength) ==
    LET offset == i * Len(audio)
        length == Min(Len(audio), targetLength - offset)
    IN  IF length > 0
        THEN set(result, subarray(audio, 0, length), offset)
        ELSE result

\* The padding loop, from repetition i on.
RECURSIVE padLoop(_, _, _, _, _)
padLoop(result, audio, i, repeats, targetLength) ==
    IF i >= repeats THEN result
    ELSE padLoop(padIteration(result, audio, i, targetLength),
                 audio, i + 1, repeats, targetLength)

\* The loop test i < repeats.  The loop is reached with targetLength above
\* audio.length, so for an empty input repeats is
\* Math.ceil(targetLength / 0) = Infinity and the test is true for every i.
loopContinues(i, targetLength, length) ==
    IF length = 0 THEN TRUE ELSE i < repeatCount(targetLength, length)

\* The largest value of the loop counter: i++ leaves a Number unchanged
\* once it is 2^53.  It stands above every finite repeat count looked at.
MaxSafeCount == MaxSampleRate * MaxHalfSeconds + 1

\* i++.
increment(i) == IF i < MaxSafeCount THEN i + 1 ELSE i

\* Math.random() yields rnd / RandomSteps for some rnd in 0..RandomSteps-1;
\* the grid is fine enough that every value of Math.floor(random * maxOffset)
\* occurs for the inputs looked at.
RandomSteps == MaxAudioLen
RandomValues == 0..(RandomSteps - 1)

\* offset = Math.floor(Math.random() * maxOffset).
randomOffset(rnd, maxOffset) == (rnd * maxOffset) \div RandomSteps

\* Variant of window: the end index is taken from the start of the array.
windowFromStart(audio, offset, targetLength) ==
    subarray(audio, offset, targetLength)

\* audio.subarray(offset, offset + targetLength).
window(audio, offset, targetLength) ==
    subarray(audio, offset, offset + targetLength)

\* normalizeAudioLength(audio, sampleRate, targetDuration) with Math.random
\* returning rnd / RandomSteps.
normalizeAudioLength(audio, sampleRate, halves, rnd) ==
    LET targetLength == targetLengthOf(sampleRate, halves)
    IN  IF Len(audio) < targetLength
        THEN padLoop(set([i \in 1..targetLength |-> 0], audio, 0), audio, 1,
                     repeatCount(targetLength, Len(audio)), targetLength)
        ELSE IF Len(audio) > targetLength
        THEN window(audio, randomOffset(rnd, Len(audio) - targetLength),
                    targetLength)
        ELSE audio

\* The calls looked at: every non-empty input up to MaxAudioLen samples.
NormalizeCalls ==
    {[fn |-> "normalizeAudioLength", pc |-> "called", audio |-> a,
      sampleRate |-> r, halves |-> h, rnd |-> 0, result |-> <<>>] :
        a \in UNION {[1..n -> Samples] : n \in 1..MaxAudioLen},
        r \in 1..MaxSampleRate, h \in 1..MaxHalfSeconds}

\* The calls of normalizeAudioLength followed statement by statement: every
\* input up to MaxAudioLen samples, the empty one too.
NormalizeLoopCalls ==
    {[fn |-> "normalizeAudioLength", pc |-> "called", audio |-> a,
      sampleRate |-> r, halves |-> h, rnd |-> 0, result |-> <<>>, i |-> 0] :
        a \in UNION {[1..n -> Samples] : n \in 0..MaxAudioLen},
        r \in 1..MaxSampleRate, h \in 1..MaxHalfSeconds}

(* --------------------------- resampleAudio ---------------------------- *)
\* The AudioBuffers with up to maxLength frames of the given samples in
\* each of up to maxChannels channels.
AudioBuffers(maxLength, maxChannels, samples) ==
    UNION {{[sampleRate |-> r, length |-> n, numberOfChannels |-> c,
             channelData |-> d] :
               r \in 1..MaxSampleRate, d \in [1..c -> [1..n -> samples]]} :
           n \in 0..maxLength, c \in 1..maxChannels}

\* audioBuffer.getChannelData(c), c counted from 0.
getChannelData(audioBuffer, c) == audioBuffer.channelData[c + 1]

\* Variant of round: rounds down.
roundDown(a, b) == a \div b

\* Math.round(a / b) for a >= 0 and b > 0: the nearest integer, a tie
\* rounded up.
round(a, b) == (2 * a + b) \div (2 * b)

\* One sample of the result, the exact value num / den of what the code
\* computes in floating point.  position = i * stepSize is
\* i * originalSampleRate / targetSampleRate, index its integer part and
\* fraction = rem / targetSampleRate.
interpolate(channelData, i, originalSampleRate, targetSampleRate) ==
    LET originalLength == Len(channelData)
        index == (i * originalSampleRate) \div targetSampleRate
        rem == (i * originalSampleRate) % targetSampleRate
    IN  IF index >= originalLength - 1
        THEN [num |-> channelData[originalLength], den |-> 1]
        ELSE [num |-> channelData[index + 1] * (targetSampleRate - rem)
                          + channelData[index + 2] * rem,
              den |-> targetSampleRate]

\* Variant of readIndices: the last sample is taken one index later.
readIndicesLate(originalLength, i, originalSampleRate, targetSampleRate) ==
    LET index == (i * originalSampleRate) \div targetSampleRate
    IN  IF index >= originalLength THEN {originalLength - 1}
        ELSE {index, index + 1}

\* The indices of channelData that iteration i of the loop reads.
readIndices(originalLength, i, originalSampleRate, targetSampleRate) ==
    LET index == (i * originalSampleRate) \div targetSampleRate
    IN  IF index >= originalLength - 1 THEN {originalLength - 1}
        ELSE {index, index + 1}

\* resampleAudio(audioBuffer, targetSampleRate).
resampleAudio(audioBuffer, targetSampleRate) ==
    LET originalSampleRate == audioBuffer.sampleRate
        originalLength == audioBuffer.length
    IN  IF originalSampleRate = targetSampleRate
        THEN getChannelData(audioBuffer, 0)
        ELSE LET targetLength == round(originalLength * targetSampleRate,
                                       originalSampleRate)
                 channelData == getChannelData(audioBuffer, 0)
             IN  [k \in 1..targetLength |->
                     interpolate(channelData, k - 1, originalSampleRate,
                                 targetSampleRate)]

\* The calls looked at: every buffer up to maxFrames frames, the empty one
\* too, and every target rate.
ResampleCalls(maxFrames, maxChannels) ==
    {[fn |-> "resampleAudio", pc |-> "called", audioBuffer |-> b,
      targetSampleRate |-> t, result |-> <<>>] :
        b \in AudioBuffers(maxFrames, maxChannels, Samples),
        t \in 1..MaxSampleRate}

(* -------------------------- extractFeatures --------------------------- *)
n_fft == 2048
hop_length == 512

\* A Number that is the quotient of two integers; num / 0 with num = 0 is
\* NaN (0 / 0, and whatever is computed from undefined or from NaN).
Rat(n, d) == [num |-> n, den |-> d]
NaN == Rat(0, 0)

\* numFrames = Math.floor((audioData.length - n_fft) / hop_length) + 1.
numFramesOf(length) == ((length - n_fft) \div hop_length) + 1

\* The values 10 * Math.log10(Math.max(1e-10, melFrame[j])) looked at:
\* -100 is the floor, the value of every band of a silent frame.  The FFT
\* and the band averages that lead to them are not computed here: every
\* table of such values is an input.
DbLevels == {-100, 0}

\* The melSpectrogram arrays the frame loop can build: numFrames frames of
\* n_mels values.
MelSpectrograms(numFrames, n_mels) ==
    [1..numFrames -> [1..n_mels -> DbLevels]]

\* transposedMelSpec[i][j] = melSpectrogram[j][i].
transpose(melSpectrogram, n_mels) ==
    [i \in 1..n_mels |->
        [j \in 1..Len(melSpectrogram) |-> melSpectrogram[j][i]]]

Cells(rows) == UNION {{rows[i][j] : j \in 1..Len(rows[i])} : i \in DOMAIN rows}

\* minVal and maxVal of a table that has cells.
minValOf(rows) == CHOOSE x \in Cells(rows) : \A y \in Cells(rows) : x <= y
maxValOf(rows) == CHOOSE x \in Cells(rows) : \A y \in Cells(rows) : x >= y

\* (transposedMelSpec[i][j] - minVal) / (maxVal - minVal).
normalizeCell(x, minVal, maxVal) == Rat(x - minVal, maxVal - minVal)

\* normalizedMelSpec: every cell normalized with the global minVal, maxVal.
normalizeTable(rows) ==
    LET minVal == minValOf(rows)
        maxVal == maxValOf(rows)
    IN  [i \in DOMAIN rows |->
            [j \in 1..Len(rows[i]) |->
                normalizeCell(rows[i][j], minVal, maxVal)]]

\* (1 - alpha) * a + alpha * b for alpha = r / d, a and b cells of the
\* normalized table (which have the same denominator).
mix(a, b, r, d) ==
    IF a.den = 0 \/ b.den = 0 \/ d = 0 THEN NaN
    ELSE Rat((d - r) * a.num + r * b.num, d * a.den)

\* resizedMelSpec[i][j] for a row of normalizedMelSpec.  srcIdx is
\* j * (srcLength - 1) / (targetTimeSteps - 1): 0 / 0 = NaN when
\* targetTimeSteps is 1, and not an index of the row when the row is empty;
\* the row read at such an index is undefined and the sum is NaN.
resizeCell(row, j, targetTimeSteps) ==
    LET srcLength == Len(row)
    IN  IF targetTimeSteps = 1 \/ srcLength = 0 THEN NaN
        ELSE LET position == j * (srcLength - 1)
                 srcIdxFloor == position \div (targetTimeSteps - 1)
                 srcIdxCeil == Min(srcIdxFloor + 1, srcLength - 1)
             IN  mix(row[srcIdxFloor + 1], row[srcIdxCeil + 1],
                     position % (targetTimeSteps - 1), targetTimeSteps - 1)

\* Variant of resizeRow: the row keeps its length.
resizeRowKeep(row, targetTimeSteps) == row

\* resizedMelSpec[i]: targetTimeSteps values interpolated from the row.
resizeRow(row, targetTimeSteps) ==
    [j \in 1..targetTimeSteps |-> resizeCell(row, j - 1, targetTimeSteps)]

\* flattenedData after the rows from i on were pushed, row by row.
RECURSIVE flatten(_, _)
flatten(rows, i) ==
    IF i > Len(rows) THEN <<>> ELSE rows[i] \o flatten(rows, i + 1)

\* The table of n_mels rows of targetTimeSteps values that steps 5 to 7
\* make of melSpectrogram.
resizedMelSpecOf(melSpectrogram, n_mels, targetTimeSteps) ==
    LET normalizedMelSpec == normalizeTable(transpose(melSpectrogram, n_mels))
    IN  [i \in 1..n_mels |-> resizeRow(normalizedMelSpec[i], targetTimeSteps)]

\* What extractFeatures settles with for audioData of the given length,
\* this.inputShape, and the environment: melSpectrogram is what the frame
\* loop builds when fftOk, that is when new FFT(n_fft) and the transform
\* succeed (no script of index.html defines FFT; where it is not defined
\* the first frame throws a ReferenceError); emptyOk tells whether
\* tf.tensor([]).reshape(...) returns a tensor or throws.
extractFeatures(length, inputShape, melSpectrogram, fftOk, emptyOk) ==
    LET n_mels == inputShape[1]
        targetTimeSteps == inputShape[2]
        numFrames == numFramesOf(length)
        threw(e) == [pc |-> "threw", error |-> e, numFrames |-> numFrames,
                     result |-> <<>>, shape |-> <<>>]
    IN  IF length = 0 THEN threw("NotSupportedError") \* createBuffer
        ELSE IF numFrames < 0 THEN threw("RangeError")   \* new Array
        ELSE IF numFrames > 0 /\ ~fftOk THEN threw("ReferenceError")
        ELSE LET flattenedData ==
                     flatten(resizedMelSpecOf(melSpectrogram, n_mels,
                                              targetTimeSteps), 1)
             IN  IF flattenedData = <<>> /\ ~emptyOk
                 THEN threw("Error")                     \* tf.tensor
                 ELSE [pc |-> "returned", error |-> Null,
                       numFrames |-> numFrames, result |-> flattenedData,
                       shape |-> <<1, n_mels, targetTimeSteps, 1>>]

\* The lengths of audioData looked at: whole hops, one sample more and one
\* sample less.
FeatureLengths ==
    {h * hop_length + d : h \in 0..MaxHops, d \in {0, 1, hop_length - 1}}

\* The calls looked at; inputShape is what the constructor or the metadata
\* set, zeros included.
FeatureCalls ==
    {[fn |-> "extractFeatures", pc |-> "called", length |-> n,
      inputShape |-> <<b, t>>, melSpectrogram |-> <<>>, numFrames |-> 0,
      result |-> <<>>, shape |-> <<>>, error |-> Null] :
        n \in FeatureLengths, b \in 0..MaxBands, t \in 0..MaxTimeSteps}

(* -------------------------- audioBufferToWav -------------------------- *)
\* The samples of the buffers encoded, in quarters: -1.5 and 0.25.
SampleUnit == 4
WavSamples == {-6, 1}

\* 0x7FFF.
Int16Max == 32767

\* An ArrayBuffer is a sequence of bytes; byte p of the buffer is element
\* p + 1.  DataView.setUint8(p, v).
setUint8(buffer, p, v) == [buffer EXCEPT ![p + 1] = v % 256]

\* DataView.setUint16(p, v, true): little endian.
setUint16(buffer, p, v) ==
    setUint8(setUint8(buffer, p, v % 65536), p + 1, (v % 65536) \div 256)

\* DataView.setUint32(p, v, true): little endian, the low 32 bits of v as
\* two 16-bit halves.
setUint32(buffer, p, v) ==
    setUint16(setUint16(buffer, p, v % 65536), p + 2, (v \div 65536) % 65536)

\* DataView.setInt16(p, v, true): two's complement, little endian.
setInt16(buffer, p, v) == setUint16(buffer, p, v % 65536)

\* Storing the Number num / den in an Int16Array: the fraction is dropped
\* (towards zero) and the integer wraps to 16 bits.
ToInt16(num, den) ==
    LET int == IF num >= 0 THEN num \div den ELSE -((-num) \div den)
    IN  ((int + 32768) % 65536) - 32768

\* Math.max(-1, Math.min(1, sample)) for a sample given in SampleUnits.
clamp(sample) ==
    IF sample > SampleUnit THEN SampleUnit
    ELSE IF sample < -SampleUnit THEN -SampleUnit ELSE sample

\* The element of the Int16Array assigned
\* Math.max(-1, Math.min(1, sample)) * 0x7FFF.
quantize(sample) == ToInt16(clamp(sample) * Int16Max, SampleUnit)

\* Variant of wavDataLength: the channels are not counted.
wavDataLengthMono(audioBuffer) == audioBuffer.length * 2

\* length = audioBuffer.length * numOfChannels * 2.
wavDataLength(audioBuffer) ==
    audioBuffer.length * audioBuffer.numberOfChannels * 2

\* The writes of the WAV header in the order of the code, each
\* <<bits, position, value>>.
headerWrites(audioBuffer) ==
    LET numOfChannels == audioBuffer.numberOfChannels
        length == wavDataLength(audioBuffer)
    IN  << <<8, 0, 82>>, <<8, 1, 73>>, <<8, 2, 70>>, <<8, 3, 70>>,   \* "RIFF"
           <<32, 4, 36 + length>>,
           <<8, 8, 87>>, <<8, 9, 65>>, <<8, 10, 86>>, <<8, 11, 69>>, \* "WAVE"
           <<8, 12, 102>>, <<8, 13, 109>>, <<8, 14, 116>>, <<8, 15, 32>>,
           <<32, 16, 16>>,
           <<16, 20, 1>>,
           <<16, 22, numOfChannels>>,
           <<32, 24, audioBuffer.sampleRate>>,
           <<32, 28, audioBuffer.sampleRate * numOfChannels * 2>>,
           <<16, 32, numOfChannels * 2>>,
           <<16, 34, 16>>,
           <<8, 36, 100>>, <<8, 37, 97>>, <<8, 38, 116>>, <<8, 39, 97>>,
           <<32, 40, length>> >>

\* The buffer after the writes from the k-th on.
RECURSIVE applyWrites(_, _, _)
applyWrites(buffer, writes, k) ==
    IF k > Len(writes) THEN buffer
    ELSE LET w == writes[k]
         IN  applyWrites(IF w[1] = 8 THEN setUint8(buffer, w[2], w[3])
                         ELSE IF w[1] = 16 THEN setUint16(buffer, w[2], w[3])
                         ELSE setUint32(buffer, w[2], w[3]),
                         writes, k + 1)

\* The Int16Array data: the two channels in turn for a stereo buffer,
\* channel 0 in the first audioBuffer.length elements otherwise; what is
\* not assigned stays 0.
wavData(audioBuffer) ==
    LET numOfChannels == audioBuffer.numberOfChannels
    IN  [k \in 1..(wavDataLength(audioBuffer) \div 2) |->
            IF numOfChannels = 2
            THEN quantize(getChannelData(audioBuffer, (k - 1) % 2)
                              [((k - 1) \div 2) + 1])
            ELSE IF k <= audioBuffer.length
                 THEN quantize(getChannelData(audioBuffer, 0)[k])
                 ELSE 0]

\* view.setInt16(offset + i * 2, data[i], true) for the elements from i on.
RECURSIVE writeData(_, _, _, _)
writeData(buffer, data, offset, i) ==
    IF i >= Len(data) THEN buffer
    ELSE writeData(setInt16(buffer, offset + i * 2, data[i + 1]),
                   data, offset, i + 1)

\* audioBufferToWav(audioBuffer): the bytes of the Blob.
audioBufferToWav(audioBuffer) ==
    LET length == wavDataLength(audioBuffer)
        buffer == [p \in 1..(44 + length) |-> 0]
    IN  writeData(applyWrites(buffer, headerWrites(audioBuffer), 1),
                  wavData(audioBuffer), 44, 0)

\* The calls looked at: every buffer up to maxFrames frames and
\* maxChannels channels.
WavCalls(maxFrames, maxChannels) ==
    {[fn |-> "audioBufferToWav", pc |-> "called", audioBuffer |-> b,
      result |-> <<>>] :
        b \in AudioBuffers(maxFrames, maxChannels, WavSamples)}

(* --------------------------- local storage --------------------------- *)
\* The item recentAudioFiles of local storage, empty at first, a list of
\* entries with the object URL made for the file; created counts the object
\* URLs made by URL.createObjectURL for the cache, revoked holds those
\* given to URL.revokeObjectURL.
\* sent holds the files handed to ossClient.uploadAudio; ossInitialized is
\* ossClient.isInitialized, false until loadConfig has found a complete
\* configuration.  An entry is [url, name, analysed]: the object URL, the
\* file whose name it carries, and (a history field) the file that the
\* analysis which made the entry had decoded and classified.
StorageInit ==
    [recentAudioFiles |-> <<>>, created |-> 0, revoked |-> {}, sent |-> {},
     ossInitialized |-> FALSE]

CacheLimit == 5

\* Variant of storeLocal: nothing is dropped from the list.
storeLocalKeepAll(st, file, analysed, stored) ==
    IF file = Null THEN st
    ELSE LET audioUrl == st.created + 1
         IN  [st EXCEPT !.created = audioUrl,
                        !.recentAudioFiles =
                            IF stored
                            THEN Append(@, [url |-> audioUrl, name |-> file,
                                            analysed |-> analysed])
                            ELSE @]

\* The local storage block of uploadAndAnalyzeAudio, run with selectedFile
\* = file by an analysis of the file analysed: URL.createObjectURL throws a
\* TypeError for null, which the catch swallows; else the entry is pushed
\* onto the parsed list, the first entry is revoked and shifted out above
\* the limit, and setItem stores the list unless it throws (~stored).
storeLocal(st, file, analysed, stored) ==
    IF file = Null THEN st
    ELSE LET audioUrl == st.created + 1
             pushed == Append(st.recentAudioFiles,
                              [url |-> audioUrl, name |-> file,
                               analysed |-> analysed])
             over == Len(pushed) > CacheLimit
         IN  [st EXCEPT !.created = audioUrl,
                        !.revoked = IF over THEN @ \cup {pushed[1].url}
                                    ELSE @,
                        !.recentAudioFiles =
                            IF ~stored THEN @
                            ELSE IF over THEN Tail(pushed) ELSE pushed]

(* ------------------------- upload analyses --------------------------- *)
\* An upload analysis is at one of the awaits of uploadAndAnalyzeAudio, or
\* over; file is the file it read, shown the value of selectedFile it gave
\* to displayResult ("none" before that).  Analyses in the same state are
\* not told apart: uploads counts them.
UploadStates ==
    [pc : {"read", "decode", "predict", "failed"}, file : Files,
     shown : {"none"}]
    \cup [pc : {"upload"}, file : Files, shown : Files]
    \cup [pc : {"done"}, file : Files, shown : Files \cup {Null}]

\* The analyses that wait at one of the awaits.
UploadsInFlight ==
    SumOver(uploads, {u \in UploadStates :
                         u.pc \in {"read", "decode", "predict", "upload"}})

StartedUploads == SumOver(uploads, UploadStates)

\* A new analysis enters state to.
AddUpload(ups, to) == [ups EXCEPT ![to] = @ + 1]

\* One analysis leaves state from and enters state to.
MoveUpload(ups, from, to) == AddUpload([ups EXCEPT ![from] = @ - 1], to)

(* ------------------------------ Init ---------------------------------- *)
\* The state once the DOMContentLoaded handler has wired the buttons: the
\* AudioProcessor is initialized, loadModel has succeeded or failed, the
\* historical counts were read from local storage.
InitWith(histories, calls) ==
    /\ isMonitoring = FALSE
    /\ recognitionCount = 0
    /\ monitoringInterval = Null
    /\ selectedFile = Null
    /\ uploadBtnDisabled = TRUE
    /\ liveIntervals = 0
    /\ pendingStarts = [late \in BOOLEAN |-> 0]
    /\ session = 0
    /\ ap = AudioProcessorInit
    /\ runs = [r \in RecorderIds |-> "none"]
    /\ uploads = [u \in UploadStates |-> 0]
    /\ isModelLoaded \in BOOLEAN
    /\ \E n \in histories :
           ml = ModelLoaderInit([c \in classNames |->
                                    IF c = "Bear" THEN n ELSE 0])
    /\ call \in calls
    /\ rec = RecordsInit
    /\ storage = StorageInit

\* No stored history.
Init == InitWith({0}, {NoCall})

\* One recognition of a bear stored by an earlier visit.
InitStats == InitWith({1}, {NoCall})

(* --------------------------- monitoring ------------------------------- *)
PendingCount == pendingStarts[FALSE] + pendingStarts[TRUE]


\* startMonitoring up to its await: returns at once when already
\* monitoring or when the model is not loaded.
StartMonitoringCall(maxPending) ==
    /\ ~isMonitoring
    /\ isModelLoaded
    /\ PendingCount < maxPending
    /\ pendingStarts' = [pendingStarts EXCEPT ![session > 0] = @ + 1]
    /\ UNCHANGED <<isMonitoring, recognitionCount, monitoringInterval,
                   liveIntervals, session, ap, runs, isModelLoaded, ml>>
    /\ UNCHANGED uploadVars

\* getUserMedia settles; requestMicrophoneAccess finishes and startMonitoring
\* continues after its await.
StartMonitoringResume(late, granted, maxStreams, maxSessions) ==
    /\ pendingStarts[late] > 0
    /\ granted => ap.liveStreams < maxStreams
    /\ pendingStarts' = [pendingStarts EXCEPT ![late] = @ - 1]
    /\ ap' = requestMicrophoneAccess(ap, granted)
    /\ IF micAccessResult(ap, granted)
       THEN /\ session < maxSessions
            /\ isMonitoring' = TRUE
            /\ recognitionCount' = 0
            /\ monitoringInterval' = "timer"
            /\ liveIntervals' = liveIntervals + 1
            /\ session' = session + 1
       ELSE UNCHANGED <<isMonitoring, recognitionCount, monitoringInterval,
                        liveIntervals, session>>
    /\ UNCHANGED <<runs, isModelLoaded, ml>>
    /\ UNCHANGED uploadVars

\* stopMonitoring, when monitoring (it returns at once otherwise).
StopMonitoring ==
    /\ isMonitoring
    /\ monitoringInterval' = Null
    /\ liveIntervals' = IF monitoringInterval # Null
                        THEN liveIntervals - 1 ELSE liveIntervals
    /\ ap' = releaseResources(stopRecording(ap))
    /\ isMonitoring' = FALSE
    /\ UNCHANGED <<recognitionCount, pendingStarts, session, runs,
                   isModelLoaded, ml>>
    /\ UNCHANGED uploadVars

\* Variant of tickStarts: the callback does not look at isMonitoring.
tickStartsUnguarded(a, mon) == canStartRecording(a)

\* The callback of a live interval timer: startRecording when monitoring.
tickStarts(a, mon) == mon /\ canStartRecording(a)

IntervalTick(maxRuns) ==
    /\ liveIntervals > 0
    /\ tickStarts(ap, isMonitoring)
    /\ ap.mediaRecorder + StartedUploads < maxRuns
    /\ ap' = startRecording(ap, session)
    /\ UNCHANGED <<runs, isModelLoaded, ml>>
    /\ UNCHANGED mainVars
    /\ UNCHANGED uploadVars

\* The stop timer set by startRecording fires.
RecordingTimeout ==
    /\ ap.recordingInterval
    /\ ap' = stopRecording(ap)
    /\ UNCHANGED <<runs, isModelLoaded, ml>>
    /\ UNCHANGED mainVars
    /\ UNCHANGED uploadVars

\* A stopped recorder fires dataavailable and stop: the blob is built and
\* the callback starts processRecordedAudio, which runs up to the
\* FileReader read inside loadAudioFile.  (The content of audioChunks and
\* of the blob is not part of the state: every run below may decode or
\* fail whatever the blob holds.)
RecorderStopEvent(r) ==
    /\ ap.recorders[r] = "stopping"
    /\ ap' = [ap EXCEPT !.recorders[r] = "inactive"]
    /\ runs' = [runs EXCEPT ![r] = IF ap.recordingCallback THEN "read" ELSE @]
    /\ UNCHANGED <<isModelLoaded, ml>>
    /\ UNCHANGED mainVars
    /\ UNCHANGED uploadVars

\* The callback of a live interval timer, with what startRecording
\* records: whether it starts a recording or returns false.
IntervalCallback(maxRuns) ==
    /\ liveIntervals > 0
    /\ isMonitoring
    /\ canStartRecording(ap) => ap.mediaRecorder < maxRuns
    /\ ap' = startRecording(ap, session)
    /\ rec' = startRecordingRecords(ap, rec)
    /\ UNCHANGED <<runs, isModelLoaded, ml>>
    /\ UNCHANGED mainVars
    /\ UNCHANGED <<selectedFile, uploadBtnDisabled, uploads, call, storage>>

\* RecorderStopEvent with what the two handlers record.
RecorderEvents(r, hasData) ==
    /\ ap.recorders[r] = "stopping"
    /\ ap' = [ap EXCEPT !.recorders[r] = "inactive"]
    /\ rec' = recorderEvents(rec, r, hasData)
    /\ runs' = [runs EXCEPT ![r] = IF ap.recordingCallback THEN "read" ELSE @]
    /\ UNCHANGED <<isModelLoaded, ml>>
    /\ UNCHANGED mainVars
    /\ UNCHANGED <<selectedFile, uploadBtnDisabled, uploads, call, storage>>

(* -------------------- processRecordedAudio stages --------------------- *)
\* FileReader.onload inside loadAudioFile (or onerror when ~ok):
\* initialize() when the shared AudioContext is gone, then decodeAudioData
\* is started.
RunOnload(r, ok) ==
    /\ runs[r] = "read"
    /\ ap' = IF ok /\ ~ap.audioContext THEN initialize(ap) ELSE ap
    /\ runs' = [runs EXCEPT ![r] = IF ok THEN "decode" ELSE "failed"]
    /\ UNCHANGED <<isModelLoaded, ml>>
    /\ UNCHANGED mainVars
    /\ UNCHANGED uploadVars

\* decodeAudioData settles; resampleAudio and normalizeAudioLength run and
\* predict starts, which throws at once when no model is loaded.  The run
\* then waits inside predict, first for extractFeatures (which awaits
\* audioContext.close() of its own context), then for
\* predictionTensor.data(); nothing shared is read or written between the
\* two, so "predict" stands for both waits.
RunDecoded(r, ok) ==
    /\ runs[r] = "decode"
    /\ runs' = [runs EXCEPT ![r] = IF ok /\ isModelLoaded
                                   THEN "predict" ELSE "failed"]
    /\ UNCHANGED <<ap, isModelLoaded, ml>>
    /\ UNCHANGED mainVars
    /\ UNCHANGED uploadVars

\* Variant of predictTail: the history is updated before the awaits are
\* known to have succeeded.
predictTailEager(m, class, ok) == updateRecognitionHistory(m, class)

\* The rest of predict once predictionTensor.data() has settled: the
\* history is updated when it resolved, nothing is when it rejected.
predictTail(m, class, ok) ==
    IF ok THEN updateRecognitionHistory(m, class) ELSE m

\* The waits of predict are over: either extractFeatures, model.predict or
\* data() failed (~ok), or predict finishes and processRecordedAudio counts
\* the recognition.
RunInferred(r, class, ok) ==
    /\ runs[r] = "predict"
    /\ ml' = predictTail(ml, class, ok)
    /\ recognitionCount' = IF ok THEN recognitionCount + 1
                           ELSE recognitionCount
    /\ runs' = [runs EXCEPT ![r] = IF ok THEN "done" ELSE "failed"]
    /\ UNCHANGED <<isMonitoring, monitoringInterval, liveIntervals,
                   pendingStarts, session, ap, isModelLoaded>>
    /\ UNCHANGED uploadVars

(* ----------------------------- uploads -------------------------------- *)
monVars == <<isMonitoring, recognitionCount, monitoringInterval,
             liveIntervals, pendingStarts, session, ap, runs, isModelLoaded>>

\* handleFileSelect: no file or a file that is not audio clears the
\* selection and disables the button; an audio file enables it.
HandleFileSelect(input) ==
    /\ selectedFile' = IF input \in Files THEN input ELSE Null
    /\ uploadBtnDisabled' = (input \notin Files)
    /\ UNCHANGED <<uploads, ml, call, rec, storage>>
    /\ UNCHANGED monVars

\* A click on the enabled upload button with a file selected:
\* uploadAndAnalyzeAudio disables the button, makes its own AudioProcessor
\* and starts reading selectedFile.
UploadClick(maxRuns, maxInFlight) ==
    /\ ~uploadBtnDisabled
    /\ selectedFile # Null
    /\ ap.mediaRecorder + StartedUploads < maxRuns
    /\ UploadsInFlight < maxInFlight
    /\ uploads' = AddUpload(uploads, [pc |-> "read", file |-> selectedFile,
                                      shown |-> "none"])
    /\ uploadBtnDisabled' = TRUE
    /\ UNCHANGED <<selectedFile, ml, call, rec, storage>>
    /\ UNCHANGED monVars

\* One await of the upload analysis u settles without finishing it: the
\* FileReader read, then decodeAudioData (after which predict starts and
\* throws at once when no model is loaded).
UploadStage(u, to) ==
    /\ uploads[u] > 0
    /\ \/ u.pc = "read" /\ to = "decode"
       \/ u.pc = "decode" /\ to = "predict" /\ isModelLoaded
    /\ uploads' = MoveUpload(uploads, u, [u EXCEPT !.pc = to])
    /\ UNCHANGED <<selectedFile, uploadBtnDisabled, ml, call, rec, storage>>
    /\ UNCHANGED monVars

\* An await of the upload analysis u fails (or predict finds no model): the
\* catch block enables the button again.
UploadFailed(u) ==
    /\ uploads[u] > 0
    /\ u.pc \in {"read", "decode", "predict"}
    /\ uploads' = MoveUpload(uploads, u, [u EXCEPT !.pc = "failed"])
    /\ uploadBtnDisabled' = FALSE
    /\ UNCHANGED <<selectedFile, ml, call, rec, storage>>
    /\ UNCHANGED monVars

\* The waits of predict are over for upload analysis u: predict updates the
\* history and the result is shown with selectedFile as it is now.  With
\* the OSS client initialized, ossClient.uploadAudio is called with
\* selectedFile and awaited; reading selectedFile.name of null throws
\* there, which leads to the local storage block like a failed upload.
\* Without the client the local storage block runs at once.  The button is
\* enabled when the analysis is over.
UploadInferred(u, class, stored) ==
    /\ uploads[u] > 0
    /\ u.pc = "predict"
    /\ ml' = predictTail(ml, class, TRUE)
    /\ IF storage.ossInitialized /\ selectedFile # Null
       THEN /\ uploads' = MoveUpload(uploads, u,
                                     [u EXCEPT !.pc = "upload",
                                               !.shown = selectedFile])
            /\ storage' = [storage EXCEPT !.sent =
                               @ \cup {[name |-> selectedFile,
                                        analysed |-> u.file]}]
            /\ UNCHANGED uploadBtnDisabled
       ELSE /\ uploads' = MoveUpload(uploads, u,
                                     [u EXCEPT !.pc = "done",
                                               !.shown = selectedFile])
            /\ storage' = storeLocal(storage, selectedFile, u.file, stored)
            /\ uploadBtnDisabled' = FALSE
    /\ UNCHANGED <<selectedFile, call, rec>>
    /\ UNCHANGED monVars

\* ossClient.uploadAudio settles for upload analysis u: when it has failed
\* the local storage block runs with selectedFile as it is now; the button
\* is enabled either way.
UploadOssSettled(u, ok, stored) ==
    /\ uploads[u] > 0
    /\ u.pc = "upload"
    /\ uploads' = MoveUpload(uploads, u, [u EXCEPT !.pc = "done"])
    /\ storage' = IF ok THEN storage
                  ELSE storeLocal(storage, selectedFile, u.file, stored)
    /\ uploadBtnDisabled' = FALSE
    /\ UNCHANGED <<selectedFile, ml, call, rec>>
    /\ UNCHANGED monVars

\* OSSClient.loadConfig has fetched a complete configuration and
\* initializeClient has made the client.
OssConfigLoaded ==
    /\ ~storage.ossInitialized
    /\ storage' = [storage EXCEPT !.ossInitialized = TRUE]
    /\ UNCHANGED <<selectedFile, uploadBtnDisabled, uploads, ml, call, rec>>
    /\ UNCHANGED monVars

\* ModelLoader.resetStatistics().
ResetStatistics ==
    /\ ml' = resetStatistics(ml)
    /\ UNCHANGED uploadVars
    /\ UNCHANGED monVars

(* -------------------------- specifications ---------------------------- *)
MonitoringNext(maxSessions, maxPending, maxStreams, maxRuns) ==
    \/ StartMonitoringCall(maxPending)
    \/ \E late \in BOOLEAN, granted \in BOOLEAN :
           StartMonitoringResume(late, granted, maxStreams, maxSessions)
    \/ StopMonitoring
    \/ IntervalTick(maxRuns)
    \/ RecordingTimeout
    \/ \E r \in RecorderIds : RecorderStopEvent(r)
    \/ \E r \in RecorderIds, ok \in BOOLEAN : RunOnload(r, ok)
    \/ \E r \in RecorderIds, ok \in BOOLEAN : RunDecoded(r, ok)
    \/ \E r \in RecorderIds, ok \in BOOLEAN, c \in classNames :
           RunInferred(r, c, ok)

UploadNext(maxRuns, maxInFlight, classes, setItemResults) ==
    \/ \E input \in Files \cup {"none", "not-audio"} : HandleFileSelect(input)
    \/ UploadClick(maxRuns, maxInFlight)
    \/ \E u \in UploadStates, to \in {"decode", "predict"} : UploadStage(u, to)
    \/ \E u \in UploadStates : UploadFailed(u)
    \/ \E u \in UploadStates, c \in classes, stored \in setItemResults :
           UploadInferred(u, c, stored)

\* The OSS client: its configuration arrives, its uploads settle.
OssNext(setItemResults) ==
    \/ OssConfigLoaded
    \/ \E u \in UploadStates, ok \in BOOLEAN, stored \in setItemResults :
           UploadOssSettled(u, ok, stored)

\* The monitoring loop.
Next ==
    MonitoringNext(MaxSessions, MaxPendingStarts, MaxStreams, MaxRecordings)

Spec == Init /\ [][Next]_vars

\* Monitoring, uploads and resets together; no OSS configuration is found
\* and localStorage.setItem does not throw.
NextStats ==
    \/ MonitoringNext(StatsSessions, StatsSessions, StatsSessions, StatsRuns)
    \/ UploadNext(StatsRuns, StatsSessions, classNames, {TRUE})
    \/ ResetStatistics

SpecStats == InitStats /\ [][NextStats]_vars

\* predict finishes with a result of the given class, for a recording or
\* an upload alike; only the first MaxVaried results of a session vary.
PredictResult(class) ==
    /\ ml.updates < (IF ml.historicalBase = 0 THEN MaxResults
                     ELSE MaxAfterReset)
    /\ class = "Bear" \/ ml.updates < MaxVaried
    /\ ml' = predictTail(ml, class, TRUE)
    /\ UNCHANGED uploadVars
    /\ UNCHANGED monVars

\* resetStatistics(), once after results have come in.
HistoryReset ==
    /\ ml.historicalBase = 0
    /\ ml' = resetStatistics(ml)
    /\ UNCHANGED uploadVars
    /\ UNCHANGED monVars

\* The statistics of ModelLoader under a long run of results.
NextHistory ==
    \/ \E c \in classNames : PredictResult(c)
    \/ HistoryReset

SpecHistory == Init /\ [][NextHistory]_vars

\* The upload analyses on their own, with the OSS client; every result
\* names the same class.
NextUpload ==
    \/ UploadNext(MaxUploads, MaxInFlight, {"Bear"}, BOOLEAN)
    \/ OssNext(BOOLEAN)

SpecUpload == Init /\ [][NextUpload]_vars

\* The recorder with what it records.  The stages of processRecordedAudio
\* after the FileReader read are left out: they read and write runs, ml
\* and recognitionCount only, nothing of the AudioProcessor.
NextRecorder ==
    \/ StartMonitoringCall(RecorderSessions)
    \/ \E late \in BOOLEAN, granted \in BOOLEAN :
           StartMonitoringResume(late, granted, RecorderSessions,
                                 RecorderSessions)
    \/ StopMonitoring
    \/ IntervalCallback(RecorderRuns)
    \/ RecordingTimeout
    \/ \E r \in RecorderIds, hasData \in BOOLEAN : RecorderEvents(r, hasData)
    \/ \E r \in RecorderIds, ok \in BOOLEAN : RunOnload(r, ok)

SpecRecorder == Init /\ [][NextRecorder]_vars

\* The stop timer is a timer of the page: it fires when it is due.
SpecRecorderFair == SpecRecorder /\ WF_vars(RecordingTimeout)

\* One call of normalizeAudioLength on a non-empty input.
InitNormalize == InitWith({0}, NormalizeCalls)

\* The call returns, Math.random having returned rnd / RandomSteps.
NormalizeReturn(rnd) ==
    /\ call.fn = "normalizeAudioLength"
    /\ call.pc = "called"
    /\ call' = [call EXCEPT
                   !.pc = "returned",
                   !.rnd = rnd,
                   !.result = normalizeAudioLength(call.audio, call.sampleRate,
                                                   call.halves, rnd)]
    /\ UNCHANGED <<selectedFile, uploadBtnDisabled, uploads, ml, rec, storage>>
    /\ UNCHANGED monVars

NextNormalize == \E rnd \in RandomValues : NormalizeReturn(rnd)

SpecNormalize == InitNormalize /\ [][NextNormalize]_vars

\* One call of normalizeAudioLength, its padding loop taken one iteration
\* at a time.
InitNormalizeLoop == InitWith({0}, NormalizeLoopCalls)

\* The call runs up to the loop test of the padding loop (a shorter input)
\* or returns (an input of targetLength samples or more).
NormalizeEnter(rnd) ==
    /\ call.fn = "normalizeAudioLength"
    /\ call.pc = "called"
    /\ LET targetLength == targetLengthOf(call.sampleRate, call.halves)
       IN  call' = IF Len(call.audio) < targetLength
                   THEN [call EXCEPT
                            !.pc = "loop",
                            !.i = 1,
                            !.result = set([k \in 1..targetLength |-> 0],
                                           call.audio, 0)]
                   ELSE [call EXCEPT
                            !.pc = "returned",
                            !.rnd = rnd,
                            !.result = normalizeAudioLength(
                                call.audio, call.sampleRate, call.halves, rnd)]
    /\ UNCHANGED <<selectedFile, uploadBtnDisabled, uploads, ml, rec, storage>>
    /\ UNCHANGED monVars

\* The loop test holds: one iteration of the padding loop, then i++.
NormalizeLoopStep ==
    /\ call.fn = "normalizeAudioLength"
    /\ call.pc = "loop"
    /\ LET targetLength == targetLengthOf(call.sampleRate, call.halves)
       IN  /\ loopContinues(call.i, targetLength, Len(call.audio))
           /\ call' = [call EXCEPT
                          !.i = increment(call.i),
                          !.result = padIteration(call.result, call.audio,
                                                  call.i, targetLength)]
    /\ UNCHANGED <<selectedFile, uploadBtnDisabled, uploads, ml, rec, storage>>
    /\ UNCHANGED monVars

\* The loop test fails: the padded result is returned.
NormalizeLoopExit ==
    /\ call.fn = "normalizeAudioLength"
    /\ call.pc = "loop"
    /\ ~loopContinues(call.i, targetLengthOf(call.sampleRate, call.halves),
                      Len(call.audio))
    /\ call' = [call EXCEPT !.pc = "returned"]
    /\ UNCHANGED <<selectedFile, uploadBtnDisabled, uploads, ml, rec, storage>>
    /\ UNCHANGED monVars

NextNormalizeLoop ==
    \/ \E rnd \in RandomValues : NormalizeEnter(rnd)
    \/ NormalizeLoopStep
    \/ NormalizeLoopExit

\* Synchronous code runs to completion: a statement that can run does.
SpecNormalizeLoop ==
    InitNormalizeLoop /\ [][NextNormalizeLoop]_vars
        /\ WF_vars(NextNormalizeLoop)

\* One call of resampleAudio.
InitResample == InitWith({0}, ResampleCalls(MaxFrames, MaxChannels))

\* The call returns; no statement of resampleAudio throws.
ResampleReturn ==
    /\ call.fn = "resampleAudio"
    /\ call.pc = "called"
    /\ call' = [call EXCEPT
                   !.pc = "returned",
                   !.result = resampleAudio(call.audioBuffer,
                                            call.targetSampleRate)]
    /\ UNCHANGED <<selectedFile, uploadBtnDisabled, uploads, ml, rec, storage>>
    /\ UNCHANGED monVars

NextResample == ResampleReturn

SpecResample == InitResample /\ [][NextResample]_vars

\* One call of extractFeatures.
InitFeatures == InitWith({0}, FeatureCalls)

\* The call settles: it returns the tensor or throws.
ExtractFeaturesSettle(fftOk, emptyOk) ==
    /\ call.fn = "extractFeatures"
    /\ call.pc = "called"
    /\ \E melSpectrogram \in
              MelSpectrograms(IF fftOk /\ numFramesOf(call.length) > 0
                              THEN numFramesOf(call.length) ELSE 0,
                              call.inputShape[1]) :
           LET out == extractFeatures(call.length, call.inputShape,
                                      melSpectrogram, fftOk, emptyOk)
           IN  call' = [call EXCEPT
                           !.pc = out.pc,
                           !.error = out.error,
                           !.numFrames = out.numFrames,
                           !.melSpectrogram =
                               IF out.pc = "returned" THEN melSpectrogram
                               ELSE <<>>,
                           !.result = out.result,
                           !.shape = out.shape]
    /\ UNCHANGED <<selectedFile, uploadBtnDisabled, uploads, ml, rec, storage>>
    /\ UNCHANGED monVars

NextFeatures ==
    \E fftOk \in BOOLEAN, emptyOk \in BOOLEAN :
        ExtractFeaturesSettle(fftOk, emptyOk)

SpecFeatures == InitFeatures /\ [][NextFeatures]_vars

\* One call of audioBufferToWav.
InitWav == InitWith({0}, WavCalls(MaxWavFrames, MaxWavChannels))

\* The call returns the Blob.
WavReturn ==
    /\ call.fn = "audioBufferToWav"
    /\ call.pc = "called"
    /\ call' = [call EXCEPT !.pc = "returned",
                            !.result = audioBufferToWav(call.audioBuffer)]
    /\ UNCHANGED <<selectedFile, uploadBtnDisabled, uploads, ml, rec, storage>>
    /\ UNCHANGED monVars

NextWav == WavReturn

SpecWav == InitWav /\ [][NextWav]_vars

(* ------------------------------ claims -------------------------------- *)
InFlight == {"read", "decode", "predict"}

\* A step in which startRecording starts a new recording.
RecordingStarts == ~ap.isRecording /\ ap'.isRecording

\* C1: at most one pipeline run is in flight: no interval tick starts a
\* recording while processRecordedAudio of an earlier clip has not finished.
C1_AtMostOneRunInFlight ==
    [][RecordingStarts => \A r \in RecorderIds : runs[r] \notin InFlight]_vars

\* A monitoring session was started and stopMonitoring has returned since.
Stopped == session > 0 /\ ~isMonitoring

\* C2: after stopMonitoring has returned no recording is started until a
\* later startMonitoring has succeeded.
C2_NoCaptureAfterStop == [][Stopped => ~RecordingStarts]_vars

\* Stopped, and yet an interval timer is alive whose callback would find a
\* stream to record from: only its look at isMonitoring keeps it idle.
C2_Witness ==
    Stopped /\ liveIntervals > 0 /\ canStartRecording(ap)

\* C3: at most one microphone stream is acquired and not released, and none
\* is while monitoring is off and no startMonitoring call is in progress.
C3_StreamReleasedOnce ==
    /\ ap.liveStreams <= 1
    /\ (~isMonitoring /\ PendingCount = 0) => ap.liveStreams = 0

\* A step in which a startMonitoring call made after stopMonitoring had
\* completed (so also after any failed run) continues with the microphone
\* granted by getUserMedia.
GrantedResume ==
    /\ pendingStarts'[TRUE] = pendingStarts[TRUE] - 1
    /\ ap'.liveStreams = ap.liveStreams + 1

\* C4: after stopMonitoring has completed or a pipeline run has failed, a
\* startMonitoring with the model loaded and the microphone granted sets
\* isMonitoring and schedules the periodic capture.
C4_Resumable ==
    [][(isModelLoaded /\ GrantedResume)
       => (isMonitoring' /\ monitoringInterval' # Null
           /\ liveIntervals' = liveIntervals + 1)]_vars

\* The runs recorded in session s that completed successfully.
DoneInSession(rs, a, s) ==
    Cardinality({r \in RecorderIds : rs[r] = "done" /\ a.recSession[r] = s})

\* C5: recognitionCount is the number of runs started in the current
\* session that completed, and it does not change once the session was
\* reported stopped.
C5_CountIsOfSession ==
    [][/\ recognitionCount' = DoneInSession(runs', ap', session')
       /\ (~isMonitoring /\ ~isMonitoring') =>
              recognitionCount' = recognitionCount]_vars

\* C6: a pipeline run that fails leaves speciesCount,
\* historicalSpeciesCount, recognitionHistory and recognitionCount as they
\* were.
C6_FailedRunKeepsStatistics ==
    [][(\E r \in RecorderIds : runs[r] # "failed" /\ runs'[r] = "failed")
       => /\ ml'.speciesCount = ml.speciesCount
          /\ ml'.historicalSpeciesCount = ml.historicalSpeciesCount
          /\ ml'.recognitionHistory = ml.recognitionHistory
          /\ recognitionCount' = recognitionCount]_vars

\* A run has failed after an earlier run was counted.
C6_Witness ==
    /\ runs[1] = "done"
    /\ runs[2] = "failed"
    /\ ml.recognitionHistory # <<>>
    /\ recognitionCount = 1

\* C7: no increment is lost: after k updateRecognitionHistory calls since
\* the last reset the session counts sum to k and the historical counts
\* have grown by k.
C7_NoLostIncrement ==
    /\ SumOver(ml.speciesCount, classNames) = ml.updates
    /\ SumOver(ml.historicalSpeciesCount, classNames) =
           ml.historicalBase + ml.updates

\* A monitoring run and an upload analysis have both been counted, one of
\* them before a reset and one after it.
C7_Witness ==
    /\ \E r \in RecorderIds : runs[r] = "done"
    /\ \E u \in UploadStates : u.pc = "done" /\ uploads[u] > 0
    /\ ml.updates = 1
    /\ ml.historicalBase = 2

\* A call of normalizeAudioLength has returned.
Normalized == call.fn = "normalizeAudioLength" /\ call.pc = "returned"

TargetLength == targetLengthOf(call.sampleRate, call.halves)

\* C8: normalizeAudioLength returns exactly targetLength samples for every
\* non-empty input, shorter, equal or longer, and every random offset.
C8_LengthIsTarget == Normalized => Len(call.result) = TargetLength

\* A longer input was cut at an offset other than 0.
C8_Witness ==
    /\ Normalized
    /\ Len(call.audio) > TargetLength
    /\ TargetLength > 0
    /\ randomOffset(call.rnd, Len(call.audio) - TargetLength) > 0

\* C9: a non-empty input shorter than targetLength is tiled: output[k] is
\* input[k mod input.length] for every k below targetLength.
C9_ShortInputIsTiled ==
    (Normalized /\ Len(call.audio) < TargetLength) =>
        \A k \in 0..(TargetLength - 1) :
            call.result[k + 1] = call.audio[(k % Len(call.audio)) + 1]

\* A short input with a sound in it was padded, its last tile cut short.
C9_Witness ==
    /\ Normalized
    /\ Len(call.audio) < TargetLength
    /\ Len(call.audio) > 1
    /\ TargetLength % Len(call.audio) # 0
    /\ call.audio[1] = 1

\* The offsets Math.random can make normalizeAudioLength choose.
ChoosableOffsets(maxOffset) ==
    {randomOffset(rnd, maxOffset) : rnd \in RandomValues}

\* C10: a longer input is cut to a window input[o .. o + targetLength) with
\* 0 <= o <= input.length - targetLength, and every offset of that closed
\* range, the last one too, can be chosen.
C10_EveryWindowChoosable ==
    (Normalized /\ Len(call.audio) > TargetLength) =>
        LET maxOffset == Len(call.audio) - TargetLength
        IN  /\ \E o \in 0..maxOffset :
                   call.result = subarray(call.audio, o, o + TargetLength)
            /\ ChoosableOffsets(maxOffset) = 0..maxOffset

\* C11: normalizeAudioLength terminates for every input: every call returns
\* or throws, and a call with an empty input and a positive target length
\* throws (EmptySignal) without running the padding loop.
C11_NormalizeTerminates ==
    /\ [](call.fn = "normalizeAudioLength" =>
            ((Len(call.audio) = 0 /\ TargetLength > 0) => call.pc # "loop"))
    /\ (call.fn = "normalizeAudioLength" /\ call.pc = "called")
           ~> (call.pc \in {"returned", "threw"})

Abs(x) == IF x < 0 THEN -x ELSE x

\* A call of resampleAudio has returned.
Resampled == call.fn = "resampleAudio" /\ call.pc = "returned"

\* C12: resampleAudio returns round(sourceLength * targetRate / sourceRate)
\* samples (the integer within 1/2 of the quotient) when the rates differ
\* and the first channel, unchanged, when they are equal.
C12_ResampleLength ==
    Resampled =>
        LET b == call.audioBuffer
        IN  IF b.sampleRate = call.targetSampleRate
            THEN call.result = b.channelData[1]
            ELSE 2 * Abs(Len(call.result) * b.sampleRate
                         - b.length * call.targetSampleRate) <= b.sampleRate

\* A buffer of two channels was resampled to a rate that makes the
\* quotient fall between two integers, nearer to the upper one.
C12_Witness ==
    /\ Resampled
    /\ call.audioBuffer.numberOfChannels = 2
    /\ call.audioBuffer.sampleRate # call.targetSampleRate
    /\ 2 * ((call.audioBuffer.length * call.targetSampleRate)
             % call.audioBuffer.sampleRate) > call.audioBuffer.sampleRate

\* C13: resampleAudio fails with an EmptySignal error exactly when the
\* input has zero samples: a call on an empty buffer throws, a call on a
\* non-empty buffer returns.
C13_ResampleFailsOnlyOnEmpty ==
    (call.fn = "resampleAudio" /\ call.pc # "called") =>
        ((call.pc = "threw") <=> (call.audioBuffer.length = 0))

\* A call of extractFeatures has settled / has returned a tensor.
FeaturesSettled == call.fn = "extractFeatures" /\ call.pc # "called"
FeaturesReturned == call.fn = "extractFeatures" /\ call.pc = "returned"

\* C14: extractFeatures uses at least one frame for every non-empty signal:
\* the frame count is never zero or negative, and it is 1 when the signal
\* has at most n_fft samples.
C14_AtLeastOneFrame ==
    (FeaturesSettled /\ call.length > 0) =>
        /\ call.numFrames >= 1
        /\ call.length <= n_fft => call.numFrames = 1

\* Every cell of the band spectrogram has the same value.
AllCellsEqual ==
    \A x, y \in Cells(transpose(call.melSpectrogram, call.inputShape[1])) :
        x = y

\* C15: when every cell of the band spectrogram has the same value, every
\* value of the tensor is 0, never the result of a division by zero.
C15_EqualCellsGiveZeros ==
    (FeaturesReturned /\ call.numFrames > 0 /\ AllCellsEqual) =>
        \A k \in 1..Len(call.result) :
            call.result[k].den # 0 /\ call.result[k].num = 0

\* C16: for a signal of at least n_fft samples and positive n_mels and
\* targetTimeSteps the tensor holds n_mels * targetTimeSteps values, row i
\* of the resized table at positions i * targetTimeSteps + j, whatever the
\* number of frames.
C16_FeatureShape ==
    (FeaturesReturned /\ call.length >= n_fft
         /\ call.inputShape[1] > 0 /\ call.inputShape[2] > 0) =>
        LET n_mels == call.inputShape[1]
            targetTimeSteps == call.inputShape[2]
            normalized == normalizeTable(transpose(call.melSpectrogram,
                                                   n_mels))
        IN  /\ Len(call.result) = n_mels * targetTimeSteps
            /\ call.shape = <<1, n_mels, targetTimeSteps, 1>>
            /\ \A i \in 0..(n_mels - 1), j \in 0..(targetTimeSteps - 1) :
                   call.result[i * targetTimeSteps + j + 1] =
                       resizeCell(normalized[i + 1], j, targetTimeSteps)

\* A tensor of two bands and three time steps was made of two frames, from
\* bands that differ.
C16_Witness ==
    /\ FeaturesReturned
    /\ call.inputShape = <<2, 3>>
    /\ call.numFrames = 2
    /\ ~AllCellsEqual
    /\ \E k \in 1..Len(call.result) : call.result[k].num # 0

\* C17: extractFeatures fails with InvalidParameters when n_mels or
\* targetTimeSteps is zero, and returns no tensor then.
C17_ZeroParametersRejected ==
    (FeaturesSettled /\ (call.inputShape[1] = 0 \/ call.inputShape[2] = 0)) =>
        (call.pc = "threw" /\ call.error = "InvalidParameters")

\* A call of audioBufferToWav has returned.
WavWritten == call.fn = "audioBufferToWav" /\ call.pc = "returned"

\* The little-endian fields a reader of the file finds at byte p.
ReadUint16(bytes, p) == bytes[p + 1] + 256 * bytes[p + 2]
ReadUint32(bytes, p) == ReadUint16(bytes, p) + 65536 * ReadUint16(bytes, p + 2)
ReadInt16(bytes, p) ==
    IF ReadUint16(bytes, p) >= 32768 THEN ReadUint16(bytes, p) - 65536
    ELSE ReadUint16(bytes, p)

\* C18: for L frames of C channels the file has 44 + 2*L*C bytes and its
\* header holds ChunkSize 36 + 2*L*C, Subchunk2Size 2*L*C, NumChannels C,
\* ByteRate sampleRate*C*2, BlockAlign C*2, AudioFormat 1, BitsPerSample 16.
C18_WavHeader ==
    WavWritten =>
        LET L == call.audioBuffer.length
            C == call.audioBuffer.numberOfChannels
            bytes == call.result
        IN  /\ Len(bytes) = 44 + 2 * L * C
            /\ ReadUint32(bytes, 4) = 36 + 2 * L * C
            /\ ReadUint32(bytes, 40) = 2 * L * C
            /\ ReadUint16(bytes, 22) = C
            /\ ReadUint32(bytes, 28) = call.audioBuffer.sampleRate * C * 2
            /\ ReadUint16(bytes, 32) = C * 2
            /\ ReadUint16(bytes, 20) = 1
            /\ ReadUint16(bytes, 34) = 16

\* Two frames of three channels were encoded.
C18_Witness ==
    /\ WavWritten
    /\ call.audioBuffer.length = 2
    /\ call.audioBuffer.numberOfChannels = 3
    /\ call.audioBuffer.sampleRate > 1

\* C19: the channels are interleaved in channel order: the 16-bit sample at
\* data position i*C + c is the quantized sample i of channel c, for every
\* frame i and every channel c < C, for three channels and more too.
C19_ChannelsInterleaved ==
    WavWritten =>
        LET L == call.audioBuffer.length
            C == call.audioBuffer.numberOfChannels
        IN  \A i \in 0..(L - 1), c \in 0..(C - 1) :
                ReadInt16(call.result, 44 + 2 * (i * C + c)) =
                    quantize(call.audioBuffer.channelData[c + 1][i + 1])

\* C20: each 16-bit sample written is round(clamp(sample, -1, 1) * 32767),
\* the integer nearest to the product, and read back (value / 32767) it is
\* within 1/32767 of the clamped sample.  Stated for the buffers of one and
\* two channels, the sample of frame i and channel c read at i*C + c.
C20_SamplesRounded ==
    (WavWritten /\ call.audioBuffer.numberOfChannels <= 2) =>
        LET L == call.audioBuffer.length
            C == call.audioBuffer.numberOfChannels
        IN  \A i \in 0..(L - 1), c \in 0..(C - 1) :
                LET value == ReadInt16(call.result, 44 + 2 * (i * C + c))
                    product == clamp(call.audioBuffer.channelData[c + 1][i + 1])
                                   * Int16Max
                IN  /\ 2 * Abs(value * SampleUnit - product) <= SampleUnit
                    /\ Abs(value * SampleUnit - product) <= SampleUnit

\* C21: a startRecording call made while a recording is in progress or
\* while no stream is held returns false and changes neither isRecording,
\* the recorder, the chunks, the stop timer nor the callback.
BlockedStart == IntervalCallback(RecorderRuns) /\ ~canStartRecording(ap)

C21_BlockedStartIsNoOp ==
    [][BlockedStart =>
          /\ rec'.returned = "false"
          /\ ap' = ap
          /\ rec'.audioChunks = rec.audioChunks
          /\ rec'.callbackId = rec.callbackId
          /\ rec'.invoked = rec.invoked]_vars

\* A call has returned false during a recording that had chunks of an
\* earlier recorder in audioChunks.
C21_Witness ==
    /\ rec.returned = "false"
    /\ ap.isRecording
    /\ ap.recordingInterval
    /\ rec.audioChunks # <<>>

\* C22: every iteration of the resampling loop reads inside the buffer:
\* with index the integer part of i * sourceRate / targetRate, the output
\* is the last sample itself when index >= sourceLength - 1 and else the
\* interpolation of the samples index and index + 1.
ResampledLoop ==
    Resampled /\ call.audioBuffer.sampleRate # call.targetSampleRate

SourceIndex(i) ==
    (i * call.audioBuffer.sampleRate) \div call.targetSampleRate

SourceFraction(i) ==
    (i * call.audioBuffer.sampleRate) % call.targetSampleRate

C22_ReadsInsideBuffer ==
    ResampledLoop =>
        LET L == call.audioBuffer.length
            x == call.audioBuffer.channelData[1]
            t == call.targetSampleRate
        IN  \A i \in 0..(Len(call.result) - 1) :
                /\ readIndices(L, i, call.audioBuffer.sampleRate, t)
                       \subseteq 0..(L - 1)
                /\ IF SourceIndex(i) >= L - 1
                   THEN call.result[i + 1] = Rat(x[L], 1)
                   ELSE call.result[i + 1] =
                            Rat(x[SourceIndex(i) + 1] * (t - SourceFraction(i))
                                    + x[SourceIndex(i) + 2] * SourceFraction(i),
                                t)

\* A result with a sample interpolated between two different samples and a
\* sample taken from the end of the buffer.
C22_Witness ==
    /\ ResampledLoop
    /\ \E i \in 0..(Len(call.result) - 1) :
           /\ SourceIndex(i) < call.audioBuffer.length - 1
           /\ SourceFraction(i) > 0
           /\ call.audioBuffer.channelData[1][SourceIndex(i) + 1]
                  # call.audioBuffer.channelData[1][SourceIndex(i) + 2]
    /\ \E i \in 0..(Len(call.result) - 1) :
           SourceIndex(i) >= call.audioBuffer.length - 1

\* C23: with targetTimeSteps = 1 the single column of every band is the
\* value of the first frame of that band, a number and not the result of
\* a division by zero.
C23_SingleStepIsFirstFrame ==
    (FeaturesReturned /\ call.inputShape[2] = 1 /\ call.numFrames > 0
         /\ ~AllCellsEqual) =>
        LET n_mels == call.inputShape[1]
            normalized == normalizeTable(transpose(call.melSpectrogram,
                                                   n_mels))
        IN  \A i \in 1..n_mels :
                /\ call.result[i].den # 0
                /\ call.result[i] = normalized[i][1]

\* C24: at most one interval timer is alive, monitoringInterval holds it
\* exactly when there is one, and none is alive while monitoring is off.
C24_OneIntervalTimer ==
    /\ liveIntervals <= 1
    /\ (monitoringInterval # Null) <=> (liveIntervals = 1)
    /\ ~isMonitoring => liveIntervals = 0

\* The blobs built by the onstop of MediaRecorder c that a callback was
\* called with, as pairs of the callback and the position in its list.
Deliveries(c) ==
    {d \in RecorderIds \X (1..Cardinality(RecorderIds)) :
        /\ d[2] <= Len(rec.invoked[d[1]])
        /\ rec.invoked[d[1]][d[2]].recorder = c}

\* C25: a callback is called exactly once with the blob of every recording
\* that has ended, never before, and that blob holds only chunks produced
\* by that recording.
C25_OneBlobOfOwnChunks ==
    \A c \in RecorderIds :
        /\ ap.recorders[c] # "inactive" => Deliveries(c) = {}
        /\ ap.recorders[c] = "inactive" => Cardinality(Deliveries(c)) = 1
        /\ \A d \in Deliveries(c) :
               LET audioBlob == rec.invoked[d[1]][d[2]]
               IN  \A k \in 1..Len(audioBlob.chunks) : audioBlob.chunks[k] = c

\* C26: isRecording is true exactly when the stop timer is pending, and a
\* recording in progress leads to isRecording false with the timer handle
\* cleared, the timer firing when it is due.
C26_RecordingStops ==
    /\ [](ap.isRecording <=> ap.recordingInterval)
    /\ ap.isRecording ~> (~ap.isRecording /\ ~ap.recordingInterval)

\* A recording has been stopped while monitoring goes on, by its timer or
\* by initialize(): its recorder has yet to fire its events.
C26_Witness ==
    /\ isMonitoring
    /\ ~ap.isRecording
    /\ ~ap.recordingInterval
    /\ ap.mediaRecorder # 0
    /\ ap.recorders[ap.mediaRecorder] = "stopping"

\* C27: at most one upload analysis is in flight, the upload button is
\* disabled while one is, and the button is enabled only when selectedFile
\* is an audio file.
C27_OneUploadInFlight ==
    /\ UploadsInFlight <= 1
    /\ UploadsInFlight > 0 => uploadBtnDisabled
    /\ ~uploadBtnDisabled => selectedFile \in Files

\* C28: the file an upload analysis shows, hands to the OSS upload and
\* records in the local cache is the file it decoded and classified.
C28_SameFileThroughout ==
    /\ \A u \in UploadStates :
           (uploads[u] > 0 /\ u.shown # "none") => u.shown = u.file
    /\ \A s \in storage.sent : s.name = s.analysed
    /\ \A k \in 1..Len(storage.recentAudioFiles) :
           storage.recentAudioFiles[k].name =
               storage.recentAudioFiles[k].analysed

\* C29: recognitionHistory holds min(n, 100) results after n calls of
\* updateRecognitionHistory since the last reset, and every call appends
\* its result behind the results held, the oldest of which is dropped when
\* 100 are held.
C29_HistoryKeepsLatest ==
    /\ [](Len(ml.recognitionHistory) = Min(ml.updates, HistoryLimit))
    /\ [][ml'.updates = ml.updates + 1 =>
             \E c \in classNames :
                 ml'.recognitionHistory =
                     Append(IF Len(ml.recognitionHistory) = HistoryLimit
                            THEN Tail(ml.recognitionHistory)
                            ELSE ml.recognitionHistory, c)]_vars

\* 101 results have come in, the second of them of another class than the
\* rest: it is now the oldest result held.
C29_Witness ==
    /\ ml.updates = HistoryLimit + 1
    /\ Len(ml.recognitionHistory) = HistoryLimit
    /\ ml.recognitionHistory[1] = "Cattle"
    /\ ml.recognitionHistory[2] = "Bear"

\* The entries of a list.
Entries(list) == {list[k] : k \in 1..Len(list)}

\* C30: the stored list recentAudioFiles never has more than 5 entries,
\* they are in the order they were made, every change of the list appends
\* the newest entry and drops nothing but the oldest one, and the object
\* URL of every entry dropped has been revoked.
C30_CacheKeepsLatestFive ==
    /\ [](/\ Len(storage.recentAudioFiles) <= CacheLimit
          /\ \A k \in 1..(Len(storage.recentAudioFiles) - 1) :
                 storage.recentAudioFiles[k].url
                     < storage.recentAudioFiles[k + 1].url)
    /\ [][storage'.recentAudioFiles # storage.recentAudioFiles =>
             LET old == storage.recentAudioFiles
                 new == storage'.recentAudioFiles
             IN  /\ new[Len(new)].url = storage'.created
                 /\ storage'.created = storage.created + 1
                 /\ \/ SubSeq(new, 1, Len(new) - 1) = old
                    \/ /\ old # <<>>
                       /\ SubSeq(new, 1, Len(new) - 1) = Tail(old)
                 /\ \A e \in Entries(old) \ Entries(new) :
                        e.url \in storage'.revoked]_vars

\* Seven analyses have stored an entry: the list holds the last five and
\* the object URLs of the first two are revoked.
C30_Witness ==
    /\ Len(storage.recentAudioFiles) = CacheLimit
    /\ storage.recentAudioFiles[1].url = 3
    /\ storage.revoked = {1, 2}
====
